---- MODULE Spec2Model ----
(***************************************************************************)
(* Model of heic_to_jpg_converter.py: the ConverterThread worker           *)
(* (process_image, run), the OutputFormatDialog getters and the            *)
(* HeicToJpgConverter main window (select_files, show_format_dialog,       *)
(* convert_files, the three signal slots, closeEvent).                     *)
(*                                                                         *)
(* Two specifications:                                                     *)
(*   Spec      the application: threads are created by convert_files only. *)
(*   SpecUnit  one ConverterThread constructed directly with arbitrary     *)
(*             constructor arguments, then run.                            *)
(***************************************************************************)
EXTENDS Integers, Sequences, FiniteSets, TLC

\* Longest file list a file dialog selection / constructor call may hold.
MaxFiles == 2

(***************************************************************************)
(* Python values used for ico_size: None, an int, or a non-int value.      *)
(***************************************************************************)
PyNone == [t |-> "None", v |-> 0]

PyInt(n) == [t |-> "int", v |-> n]

PyStr(n) == [t |-> "str", v |-> n]

\* Python truthiness of an ico_size value (the "and self.ico_size" operand).
Truthy(x) == CASE x.t = "None" -> FALSE
               [] x.t = "int"  -> x.v # 0
               [] OTHER        -> TRUE

(***************************************************************************)
(* Strings.  A basename is a sequence of tokens split at its dots, e.g.    *)
(* "t.v.tiff" is <<"t", ".", "v", ".", "tiff">>; tokens are never empty.   *)
(***************************************************************************)
RECURSIVE Flatten(_)
Flatten(toks) == IF toks = <<>> THEN "" ELSE Head(toks) \o Flatten(Tail(toks))

\* str.lower() on the tokens that occur.
Lower(s) == CASE s = "HEIC" -> "heic"
              [] s = "JPG"  -> "jpg"
              [] s = "PNG"  -> "png"
              [] s = "WEBP" -> "webp"
              [] s = "BMP"  -> "bmp"
              [] s = "GIF"  -> "gif"
              [] s = "TIFF" -> "tiff"
              [] s = "ICO"  -> "ico"
              [] OTHER      -> s

\* int() on the digit strings that occur.
IntOf(s) == CASE s = "16"  -> 16
              [] s = "32"  -> 32
              [] s = "64"  -> 64
              [] s = "128" -> 128
              [] s = "256" -> 256

\* os.path.splitext(basename)[0]: everything before the last dot that is
\* preceded by a non-dot token; the whole name when there is none.
LastDot(toks) ==
    LET dots == {i \in 2..Len(toks) :
                    toks[i] = "." /\ \E j \in 1..(i-1) : toks[j] # "."}
    IN IF dots = {} THEN 0 ELSE CHOOSE i \in dots : \A j \in dots : j <= i

splitext(toks) == IF LastDot(toks) = 0 THEN toks
                  ELSE SubSeq(toks, 1, LastDot(toks) - 1)

\* file_path.lower().endswith(".heic")
IsHeic(f) ==
    /\ Len(f.base) >= 2
    /\ f.base[Len(f.base) - 1] = "."
    /\ Lower(f.base[Len(f.base)]) = "heic"

\* os.path.join(dir, name): a path is a directory (sequence of components)
\* and a final component.
join(dir, name) == [dir |-> dir, name |-> name]

\* The directory join(dir, name) denotes, as a sequence of components.
AsDir(p) == Append(p.dir, p.name)

IsPrefix(s, t) == Len(s) <= Len(t) /\ SubSeq(t, 1, Len(s)) = s

(***************************************************************************)
(* The files a selection can hold: path (dir, base) and what is on disk    *)
(* there (exists, readable, frames).  A frame has a colour mode, a size    *)
(* and whether its data decodes.                                           *)
(***************************************************************************)
Frame(m, w, h, ok) == [mode |-> m, w |-> w, h |-> h, ok |-> ok]

File(d, b, e, r, fr) ==
    [dir |-> d, base |-> b, exists |-> e, readable |-> r, frames |-> fr]

Files ==
    { File(<<"d1">>, <<"a", ".", "png">>, TRUE, TRUE,
           << Frame("RGBA", 2, 1, TRUE) >>),
      File(<<"d1">>, <<"a", ".", "gif">>, TRUE, TRUE,
           << Frame("P", 1, 2, TRUE), Frame("L", 1, 2, TRUE) >>),
      File(<<"d1">>, <<"a", ".", "bmp">>, TRUE, TRUE,
           << Frame("RGB", 3, 3, TRUE) >>),
      File(<<"d2">>, <<"c", ".", "HEIC">>, TRUE, TRUE,
           << Frame("RGB", 2, 2, TRUE) >>),
      File(<<"d1">>, <<"bad", ".", "png">>, TRUE, FALSE, << >>),
      File(<<"d2">>, <<"gone", ".", "heic">>, FALSE, FALSE, << >>),
      File(<<"d1">>, <<"t", ".", "v", ".", "tiff">>, TRUE, TRUE,
           << Frame("CMYK", 2, 1, TRUE), Frame("CMYK", 2, 1, FALSE) >>) }

\* Lists of distinct files of length n .. MaxFiles (a QFileDialog selection).
FileLists(n) ==
    UNION { { s \in [1..len -> Files] : \A i, j \in 1..len : i # j => s[i] # s[j] }
            : len \in n..MaxFiles }

(***************************************************************************)
(* OutputFormatDialog                                                      *)
(***************************************************************************)
output_formats == <<"JPG", "PNG", "WEBP", "BMP", "GIF", "TIFF", "ICO">>

ico_sizes == << <<"16", "x", "16">>, <<"32", "x", "32">>, <<"64", "x", "64">>,
                <<"128", "x", "128">>, <<"256", "x", "256">> >>

\* format_combo.currentText().lower(), the combo being at index fi
get_selected_format(fi) == Lower(output_formats[fi])

\* size_str.split("x")[0]
SplitX0(toks) ==
    LET xs == {i \in 1..Len(toks) : toks[i] = "x"}
    IN IF xs = {} THEN Flatten(toks)
       ELSE Flatten(SubSeq(toks, 1, (CHOOSE i \in xs : \A j \in xs : i <= j) - 1))

get_ico_size(fi, si) ==
    IF Lower(output_formats[fi]) = "ico"
    THEN PyInt(IntOf(SplitX0(ico_sizes[si])))
    ELSE PyNone

(***************************************************************************)
(* State                                                                   *)
(***************************************************************************)
VARIABLES
    selected_files,    \* HeicToJpgConverter.selected_files
    output_format,     \* HeicToJpgConverter.output_format
    ico_size,          \* HeicToJpgConverter.ico_size
    output_base_dir,   \* HeicToJpgConverter.output_base_dir (<<>> is None)
    select_enabled,    \* select_button.isEnabled()
    progress_value,    \* progress.value()
    progress_max,      \* progress.maximum()
    status_label,      \* status_label.text()
    app,               \* "running", "closed" (main window closed), "exited"
    threads,           \* the ConverterThread objects that exist, oldest first
    queue              \* signals emitted by workers, not yet delivered to slots

vars == <<selected_files, output_format, ico_size, output_base_dir,
          select_enabled, progress_value, progress_max, status_label,
          app, threads, queue>>

gui == <<selected_files, output_format, ico_size, output_base_dir,
         select_enabled, progress_value, progress_max, status_label>>

(***************************************************************************)
(* ConverterThread                                                         *)
(***************************************************************************)
\* __init__, plus run's locals and a record of what the thread did:
\*   attempts  files process_image was called on, by index, in call order
\*   results   "ok"/"failed" per file whose process_image call has ended
\*   saves     every img.save call: file, page, path, the frame handed over,
\*             the keyword arguments, and whether the write succeeded
\*   subdirs   [file, dir] for every subfolder process_image made or reused
\*   write_errors   the files a makedirs or save call failed for
\*   progress_log, status_log, finished_count   the signals emitted
ConverterThread(files, fmt, ico, base_dir) ==
    [files |-> files, output_format |-> fmt, ico_size |-> ico,
     output_base_dir |-> base_dir,
     pc |-> "for", idx |-> 0, processed_files |-> 0,
     images_info |-> <<>>, tell |-> 0, page_num |-> 0, output_dir |-> <<>>,
     attempts |-> <<>>, results |-> <<>>, saves |-> <<>>, subdirs |-> <<>>,
     write_errors |-> {},
     progress_log |-> <<>>, status_log |-> <<>>, finished_count |-> 0]

Progress(n) == [sig |-> "progress", n |-> n, s |-> ""]

Status(s) == [sig |-> "status", n |-> 0, s |-> s]

Finished == [sig |-> "finished", n |-> 0, s |-> ""]

\* A worker runs while the process lives.
Alive == app # "exited"

\* The file the for loop of run is at.
Cur(t) == t.files[t.idx + 1]

\* os.path.splitext(os.path.basename(file_path))[0]
output_filename_base(f) == Flatten(splitext(f.base))

\* process_image raises: its handler emits status_updated and re-raises
\* (216-219), run's handler emits status_updated again and continues (247-250).
FailStatusEmits(t) == << Status("failed"), Status("failed") >>

\* Fail with the exception leaving the for loop of run: no later file is tried.
Fail_aborts(k, t) ==
    /\ threads' = [threads EXCEPT ![k] =
          [t EXCEPT !.pc = "for", !.idx = Len(t.files),
                    !.images_info = <<>>, !.tell = 0, !.page_num = 0,
                    !.output_dir = <<>>,
                    !.attempts = IF t.pc = "for" THEN Append(@, t.idx + 1) ELSE @,
                    !.results = Append(@, "failed"),
                    !.status_log = @ \o [i \in 1..Len(FailStatusEmits(t)) |-> t.idx + 1]]]
    /\ queue' = queue \o FailStatusEmits(t)

Fail(k, t) ==
    /\ threads' = [threads EXCEPT ![k] =
          [t EXCEPT !.pc = "for", !.idx = t.idx + 1,
                    !.images_info = <<>>, !.tell = 0, !.page_num = 0,
                    !.output_dir = <<>>,
                    !.attempts = IF t.pc = "for" THEN Append(@, t.idx + 1) ELSE @,
                    !.results = Append(@, "failed"),
                    !.status_log = @ \o [i \in 1..Len(FailStatusEmits(t)) |-> t.idx + 1]]]
    /\ queue' = queue \o FailStatusEmits(t)

\* run, one iteration of "for file_path in self.files": the call of
\* process_image up to the decode (118-156, first part).
process_image_open(k) ==
    LET t == threads[k]
        f == Cur(t) IN
    /\ Alive
    /\ t.pc = "for"
    /\ t.idx < Len(t.files)
    /\ IF ~f.exists THEN Fail(k, t)
       ELSE IF IsHeic(f)
       THEN IF f.readable /\ f.frames # <<>> /\ f.frames[1].ok
            THEN /\ threads' = [threads EXCEPT ![k] =
                       [t EXCEPT !.pc = "mkdir",
                                 !.attempts = Append(@, t.idx + 1),
                                 !.images_info = << f.frames[1] >>]]
                 /\ UNCHANGED queue
            ELSE Fail(k, t)
       ELSE IF f.readable
            THEN /\ threads' = [threads EXCEPT ![k] =
                       [t EXCEPT !.pc = "probe",
                                 !.attempts = Append(@, t.idx + 1),
                                 !.images_info = <<>>, !.tell = 0]]
                 /\ UNCHANGED queue
            ELSE Fail(k, t)
    /\ UNCHANGED <<gui, app>>

\* process_image_probe with any decode error ending the loop like EOFError.
process_image_probe_error_ends(k) ==
    LET t == threads[k]
        f == Cur(t) IN
    /\ Alive
    /\ t.pc = "probe"
    /\ IF ~f.frames[t.tell + 1].ok
       THEN /\ threads' = [threads EXCEPT ![k] = [t EXCEPT !.pc = "mkdir"]]
            /\ UNCHANGED queue
       ELSE /\ threads' = [threads EXCEPT ![k] =
                  [t EXCEPT !.images_info = Append(@, f.frames[t.tell + 1]),
                            !.tell = IF t.tell + 1 >= Len(f.frames) THEN @ ELSE @ + 1,
                            !.pc = IF t.tell + 1 >= Len(f.frames) THEN "mkdir" ELSE "probe"]]
            /\ UNCHANGED queue
    /\ UNCHANGED <<gui, app>>

\* One turn of the "while True" loop (147-153): copy the current frame,
\* seek to the next; EOFError leaves the loop, any other error fails the file.
process_image_probe(k) ==
    LET t == threads[k]
        f == Cur(t) IN
    /\ Alive
    /\ t.pc = "probe"
    /\ IF ~f.frames[t.tell + 1].ok THEN Fail(k, t)
       ELSE /\ threads' = [threads EXCEPT ![k] =
                  [t EXCEPT !.images_info = Append(@, f.frames[t.tell + 1]),
                            !.tell = IF t.tell + 1 >= Len(f.frames) THEN @ ELSE @ + 1,
                            !.pc = IF t.tell + 1 >= Len(f.frames) THEN "mkdir" ELSE "probe"]]
            /\ UNCHANGED queue
    /\ UNCHANGED <<gui, app>>

\* 159-166: the output directory; a multi-frame input gets a subfolder, made
\* unless it exists.  makedirs can fail (write_ok = FALSE) when the batch has
\* not made the folder already.
process_image_mkdir(k) ==
    LET t == threads[k]
        f == Cur(t)
        dir == AsDir(join(t.output_base_dir, output_filename_base(f)))
        made == \E i \in 1..Len(t.subdirs) : t.subdirs[i].dir = dir IN
    /\ Alive
    /\ t.pc = "mkdir"
    /\ IF Len(t.images_info) > 1
       THEN \E write_ok \in BOOLEAN :
              IF write_ok \/ made
              THEN /\ threads' = [threads EXCEPT ![k] =
                         [t EXCEPT !.pc = "frames", !.page_num = 0,
                                   !.output_dir = dir,
                                   !.subdirs = Append(@, [file |-> t.idx + 1, dir |-> dir])]]
                   /\ UNCHANGED queue
              ELSE Fail(k, [t EXCEPT !.write_errors = @ \cup {t.idx + 1}])
       ELSE /\ threads' = [threads EXCEPT ![k] =
                  [t EXCEPT !.pc = "frames", !.page_num = 0,
                            !.output_dir = t.output_base_dir]]
            /\ UNCHANGED queue
    /\ UNCHANGED <<gui, app>>

\* 172-179: the colour mode of the frame after the conversions.
ConvertMode(fmt, mode) ==
    IF fmt = "jpg" /\ mode # "RGB" THEN "RGB"
    ELSE IF mode \notin {"RGB", "RGBA"} THEN "RGB"
    ELSE mode

\* 182-183: the icon branch is entered.
IcoBranch(fmt, ico) == fmt = "ico" /\ Truthy(ico)

\* 183: "not isinstance(self.ico_size, int) or self.ico_size <= 0"
IcoInvalid(ico) == ico.t # "int" \/ ico.v <= 0

\* 172-186: the frame handed to img.save (the icon branch passed its size test).
Transform(fmt, ico, img) ==
    LET m == ConvertMode(fmt, img.mode) IN
    IF IcoBranch(fmt, ico)
    THEN [mode |-> m, w |-> ico.v, h |-> ico.v]
    ELSE [mode |-> m, w |-> img.w, h |-> img.h]

\* output_filename numbering the pages from 0.
output_filename_from0(base, nframes, page_num, fmt) ==
    (IF nframes > 1 THEN base \o "_page" \o ToString(page_num) ELSE base)
        \o "." \o fmt

\* output_filename without the page suffix.
output_filename_nopage(base, nframes, page_num, fmt) == base \o "." \o fmt

\* 189-193: output_filename
output_filename(base, nframes, page_num, fmt) ==
    (IF nframes > 1 THEN base \o "_page" \o ToString(page_num + 1) ELSE base)
        \o "." \o fmt

\* run's format_mapping (226-234) with the .get default of 196
format_mapping(fmt) ==
    CASE fmt = "jpg"  -> "JPEG"
      [] fmt = "png"  -> "PNG"
      [] fmt = "webp" -> "WEBP"
      [] fmt = "bmp"  -> "BMP"
      [] fmt = "gif"  -> "GIF"
      [] fmt = "tiff" -> "TIFF"
      [] fmt = "ico"  -> "ICO"
      [] OTHER        -> fmt

\* 197-203: save_kwargs; quality 0 and sizes <<>> stand for an absent key.
save_kwargs(fmt, ico) ==
    [quality |-> IF fmt = "jpg" THEN 95 ELSE IF fmt = "webp" THEN 80 ELSE 0,
     sizes |-> IF fmt = "ico" THEN << <<ico, ico>> >> ELSE <<>>]

\* One turn of "for page_num, (img, is_pil_image) in enumerate(images_info)"
\* (169-215): convert, resize, name, save.  The write can fail.
process_image_frame(k) ==
    LET t == threads[k]
        f == Cur(t)
        img == t.images_info[t.page_num + 1]
        path == join(t.output_dir,
                     output_filename(output_filename_base(f), Len(t.images_info),
                                     t.page_num, t.output_format))
        call(ok) == [file |-> t.idx + 1, page |-> t.page_num + 1, path |-> path,
                     frame |-> Transform(t.output_format, t.ico_size, img),
                     format |-> format_mapping(t.output_format),
                     kwargs |-> save_kwargs(t.output_format, t.ico_size),
                     ok |-> ok] IN
    /\ Alive
    /\ t.pc = "frames"
    /\ t.page_num < Len(t.images_info)
    /\ IF IcoBranch(t.output_format, t.ico_size) /\ IcoInvalid(t.ico_size)
       THEN Fail(k, t)
       ELSE \E write_ok \in BOOLEAN :
              IF write_ok
              THEN /\ threads' = [threads EXCEPT ![k] =
                         [t EXCEPT !.page_num = @ + 1,
                                   !.saves = Append(@, call(TRUE))]]
                   /\ UNCHANGED queue
              ELSE Fail(k, [t EXCEPT !.saves = Append(@, call(FALSE)),
                                     !.write_errors = @ \cup {t.idx + 1}])
    /\ UNCHANGED <<gui, app>>

\* process_image returned: 245-246.
run_file_done(k) ==
    LET t == threads[k] IN
    /\ Alive
    /\ t.pc = "frames"
    /\ t.page_num = Len(t.images_info)
    /\ threads' = [threads EXCEPT ![k] =
          [t EXCEPT !.pc = "for", !.idx = @ + 1,
                    !.processed_files = @ + 1,
                    !.images_info = <<>>, !.tell = 0, !.page_num = 0,
                    !.output_dir = <<>>,
                    !.results = Append(@, "ok"),
                    !.progress_log = Append(@, t.processed_files + 1)]]
    /\ queue' = Append(queue, Progress(t.processed_files + 1))
    /\ UNCHANGED <<gui, app>>

\* The for loop is over: 257-260.
run_finish(k) ==
    LET t == threads[k] IN
    /\ Alive
    /\ t.pc = "for"
    /\ t.idx = Len(t.files)
    /\ threads' = [threads EXCEPT ![k] =
          [t EXCEPT !.pc = "done",
                    !.progress_log = Append(@, Len(t.files)),
                    !.finished_count = @ + 1]]
    /\ queue' = queue \o << Status("done"), Progress(Len(t.files)), Finished >>
    /\ UNCHANGED <<gui, app>>

run(k) ==
    \/ process_image_open(k)
    \/ process_image_probe(k)
    \/ process_image_mkdir(k)
    \/ process_image_frame(k)
    \/ run_file_done(k)
    \/ run_finish(k)

(***************************************************************************)
(* HeicToJpgConverter                                                      *)
(***************************************************************************)
\* pic_dir taken from the last selected file.
pic_dir_last(files) == Append(files[Len(files)].dir, "pic")

\* os.path.abspath(os.path.join(os.path.dirname(files[0]), "pic"))
pic_dir(files) == Append(files[1].dir, "pic")

\* convert_files leaving the select button enabled.
convert_files_button_on ==
    IF Len(selected_files') = 0
    THEN UNCHANGED <<select_enabled, progress_value, progress_max, status_label,
                     threads>>
    ELSE /\ progress_value' = 0
         /\ progress_max' = Len(selected_files')
         /\ select_enabled' = select_enabled
         /\ status_label' = "converting"
         /\ threads' = Append(threads,
                              ConverterThread(selected_files', output_format',
                                              ico_size', output_base_dir'))

\* convert_files (423-437)
convert_files ==
    IF Len(selected_files') = 0
    THEN UNCHANGED <<select_enabled, progress_value, progress_max, status_label,
                     threads>>
    ELSE /\ progress_value' = 0
         /\ progress_max' = Len(selected_files')
         /\ select_enabled' = FALSE
         /\ status_label' = "converting"
         /\ threads' = Append(threads,
                              ConverterThread(selected_files', output_format',
                                              ico_size', output_base_dir'))

\* show_format_dialog (403-421): the dialog is accepted with the combos at
\* (fi, si), or dismissed.  select_files calls it with a non-empty selection,
\* so the file_count == 0 return is never taken.
show_format_dialog(accepted, fi, si) ==
    IF accepted
    THEN /\ output_format' = get_selected_format(fi)
         /\ ico_size' = get_ico_size(fi, si)
         /\ convert_files
    ELSE /\ selected_files' = <<>>
         /\ status_label' = "cancelled"
         /\ UNCHANGED <<output_format, ico_size, select_enabled,
                        progress_value, progress_max, threads>>

\* select_files (379-401), the slot of select_button.clicked: the file dialog
\* returns files (<<>> when dismissed), then the format dialog is shown and is
\* dismissed or accepted with the combos at (fi, si).
select_files ==
    /\ app = "running"
    /\ select_enabled
    /\ \E files \in FileLists(0) :
         IF files # <<>>
         THEN /\ output_base_dir' = pic_dir(files)
              /\ \/ show_format_dialog(FALSE, 1, 1)
                 \/ \E fi \in DOMAIN output_formats :
                      \E si \in IF get_selected_format(fi) = "ico"
                                THEN DOMAIN ico_sizes ELSE {1} :
                         /\ selected_files' = files
                         /\ show_format_dialog(TRUE, fi, si)
         ELSE UNCHANGED gui /\ UNCHANGED threads
    /\ UNCHANGED <<app, queue>>

\* update_progress (439-441), slot of progress_updated
update_progress ==
    /\ app = "running"
    /\ queue # <<>>
    /\ Head(queue).sig = "progress"
    /\ progress_value' = Head(queue).n
    /\ queue' = Tail(queue)
    /\ UNCHANGED <<selected_files, output_format, ico_size, output_base_dir,
                   select_enabled, progress_max, status_label, app, threads>>

\* update_status (447-449), slot of status_updated
update_status ==
    /\ app = "running"
    /\ queue # <<>>
    /\ Head(queue).sig = "status"
    /\ status_label' = Head(queue).s
    /\ queue' = Tail(queue)
    /\ UNCHANGED <<selected_files, output_format, ico_size, output_base_dir,
                   select_enabled, progress_value, progress_max, app, threads>>

\* The thread objects left once the oldest finished one is forgotten.
Forget(ts) ==
    LET done == {i \in DOMAIN ts : ts[i].pc = "done"} IN
    IF done = {} THEN ts
    ELSE LET d == CHOOSE i \in done : \A j \in done : i <= j IN
         SubSeq(ts, 1, d - 1) \o SubSeq(ts, d + 1, Len(ts))

\* on_conversion_finished (455-467), slot of conversion_finished
on_conversion_finished ==
    /\ app = "running"
    /\ queue # <<>>
    /\ Head(queue).sig = "finished"
    /\ select_enabled' = TRUE
    /\ selected_files' = <<>>
    /\ queue' = Tail(queue)
    \* the thread that emitted the signal is over and is never read again
    /\ threads' = Forget(threads)
    /\ UNCHANGED <<output_format, ico_size, output_base_dir,
                   progress_value, progress_max, status_label, app>>

\* closeEvent (370-377): the close is accepted whatever the worker does; the
\* main window being the last one, app.exec() returns.
closeEvent ==
    /\ app = "running"
    /\ app' = "closed"
    /\ UNCHANGED <<gui, threads, queue>>

\* sys.exit(app.exec()) (480): the process ends, and every worker with it.
sys_exit ==
    /\ app = "closed"
    /\ app' = "exited"
    /\ UNCHANGED <<gui, threads, queue>>

(***************************************************************************)
(* Specifications                                                          *)
(***************************************************************************)
\* HeicToJpgConverter.__init__ (328-344); a new QProgressBar has value -1 and
\* maximum 100.
Init ==
    /\ selected_files = <<>>
    /\ output_format = "jpg"
    /\ ico_size = PyNone
    /\ output_base_dir = <<>>
    /\ select_enabled = TRUE
    /\ progress_value = -1
    /\ progress_max = 100
    /\ status_label = ""
    /\ app = "running"
    /\ threads = <<>>
    /\ queue = <<>>

Next ==
    \/ select_files
    \/ update_progress
    \/ update_status
    \/ on_conversion_finished
    \/ closeEvent
    \/ sys_exit
    \/ \E k \in DOMAIN threads : run(k)

Spec == Init /\ [][Next]_vars

\* A ConverterThread constructed directly: any file list, any format token,
\* any icon size value, valid or not.  No slot is connected: the window's
\* fields stay as constructed and emitted signals stay in the queue.
IcoArgs == {PyNone, PyInt(0), PyInt(-1), PyStr(64)}
              \cup {get_ico_size(7, si) : si \in DOMAIN ico_sizes}

InitUnit ==
    /\ selected_files = <<>>
    /\ output_format = "jpg"
    /\ ico_size = PyNone
    /\ output_base_dir = <<>>
    /\ select_enabled = TRUE
    /\ progress_value = -1
    /\ progress_max = 100
    /\ status_label = ""
    /\ app = "running"
    /\ queue = <<>>
    /\ \E files \in FileLists(0), fi \in DOMAIN output_formats :
         \E ico \in IF get_selected_format(fi) = "ico" THEN IcoArgs ELSE {PyNone} :
            threads = << ConverterThread(files, get_selected_format(fi), ico,
                                         <<"out", "pic">>) >>

NextUnit == \E k \in DOMAIN threads : run(k)

SpecUnit == InitUnit /\ [][NextUnit]_vars

(***************************************************************************)
(* What the properties compare the worker's record against: facts about    *)
(* the input files, stated from the files themselves.                      *)
(***************************************************************************)
\* The stem of each file name, written out.
ExpectedStem(f) ==
    LET n == Flatten(f.base) IN
    CASE n = "a.png"     -> "a"
      [] n = "a.gif"     -> "a"
      [] n = "a.bmp"     -> "a"
      [] n = "c.HEIC"    -> "c"
      [] n = "bad.png"   -> "bad"
      [] n = "gone.heic" -> "gone"
      [] n = "t.v.tiff"  -> "t.v"

\* The files that take the HEIC decode path.
HeicNames == {"c.HEIC", "gone.heic"}

\* The file cannot be decoded in full: missing, unreadable, or a frame the
\* decode path reads is corrupt.
Undecodable(f) ==
    \/ ~f.exists
    \/ ~f.readable
    \/ IF Flatten(f.base) \in HeicNames THEN ~f.frames[1].ok
       ELSE \E i \in DOMAIN f.frames : ~f.frames[i].ok

\* The number of frames extraction yields for a decodable file.
FrameCount(f) == IF Flatten(f.base) \in HeicNames THEN 1 ELSE Len(f.frames)

\* A positive integer icon size; an icon size the test of line 183 rejects.
PositiveInt(x) == x.t = "int" /\ x.v >= 1

RejectedIco(x) == x.t = "str" \/ (x.t = "int" /\ x.v <= -1)

Ident(n) == [i \in 1..n |-> i]

SavesOf(t, i) == SelectSeq(t.saves, LAMBDA c : c.file = i)

(***************************************************************************)
(* C1                                                                      *)
(***************************************************************************)
\* C1: run calls process_image on every file of the list exactly once, in
\* list order, and emits conversion_finished exactly once, after the last
\* file; a file fails exactly when it has a cause of its own (missing,
\* undecodable, rejected icon size, write error), whatever happened to the
\* files before it.
C1_EveryFileOnceThenFinished ==
    \A k \in DOMAIN threads :
      LET t == threads[k]
          n == Len(t.files) IN
      /\ t.attempts = Ident(Len(t.attempts))
      /\ Len(t.attempts) <= n
      /\ Len(t.results) = t.idx
      /\ Len(t.attempts) = IF t.pc \in {"for", "done"} THEN t.idx ELSE t.idx + 1
      /\ t.finished_count = IF t.pc = "done" THEN 1 ELSE 0
      /\ t.pc = "done" => Len(t.attempts) = n /\ Len(t.results) = n
      /\ t.pc # "done" => ENABLED run(k)
      /\ \A i \in 1..Len(t.results) :
           LET f == t.files[i] IN
           /\ (Undecodable(f) \/ i \in t.write_errors
                 \/ (t.output_format = "ico" /\ RejectedIco(t.ico_size)))
                => t.results[i] = "failed"
           /\ (~Undecodable(f) /\ i \notin t.write_errors
                 /\ (t.output_format = "ico" => PositiveInt(t.ico_size)))
                => t.results[i] = "ok"

\* A finished batch of two files whose first file failed and whose second
\* file was converted.
C1_Witness ==
    \E k \in DOMAIN threads :
      /\ threads[k].pc = "done"
      /\ threads[k].results = <<"failed", "ok">>
      /\ threads[k].finished_count = 1

(***************************************************************************)
(* C2                                                                      *)
(***************************************************************************)
IsNonDecreasing(q) == \A i \in 1..(Len(q) - 1) : q[i] <= q[i + 1]

\* C2: after the i-th file of the list finishes, succeeded or failed, a
\* progress_updated value has been emitted for it; the emitted values never
\* decrease and never exceed the number of files, the progress bar maximum.
C2_ProgressAfterEveryFile ==
    \A k \in DOMAIN threads :
      LET t == threads[k] IN
      /\ Len(t.progress_log) >= t.idx
      /\ IsNonDecreasing(t.progress_log)
      /\ \A i \in DOMAIN t.progress_log : t.progress_log[i] <= Len(t.files)
      /\ progress_value <= progress_max

(***************************************************************************)
(* C3                                                                      *)
(***************************************************************************)
\* C3: the worker emits exactly one outcome notification per file (a
\* success progress update or a failure status message): the number of
\* outcomes reported so far equals the number of files finished so far, and
\* no file is reported twice.
C3_OneOutcomePerFile ==
    \A k \in DOMAIN threads :
      LET t == threads[k] IN
      /\ Len(t.status_log) + Len(t.progress_log) - t.finished_count = Len(t.results)
      /\ \A i, j \in DOMAIN t.status_log : i # j => t.status_log[i] # t.status_log[j]

(***************************************************************************)
(* C4                                                                      *)
(***************************************************************************)
\* The paths the layout rule gives an input with stem S and K frames.
ExpectedPaths(root, S, K, E) ==
    IF K = 1 THEN << [dir |-> root, name |-> S \o "." \o E] >>
    ELSE [n \in 1..K |->
            [dir |-> Append(root, S),
             name |-> S \o "_page" \o ToString(n) \o "." \o E]]

\* C4: a converted input with K = 1 frame is written to exactly <root>/S.E
\* and gets no subfolder; one with K > 1 frames is written to exactly
\* <root>/S/S_page1.E .. <root>/S/S_pageK.E, in frame order, and gets the
\* subfolder <root>/S.
C4_OutputLayout ==
    \A k \in DOMAIN threads :
      LET t == threads[k] IN
      \A i \in 1..Len(t.results) :
        t.results[i] = "ok" =>
          LET f == t.files[i]
              K == FrameCount(f)
              written == SavesOf(t, i)
              dirs == {j \in DOMAIN t.subdirs : t.subdirs[j].file = i} IN
          /\ \A j \in DOMAIN written : written[j].ok /\ written[j].page = j
          /\ [j \in DOMAIN written |-> written[j].path]
               = ExpectedPaths(t.output_base_dir, ExpectedStem(f), K, t.output_format)
          /\ (dirs # {}) <=> (K > 1)
          /\ \A j \in dirs :
               t.subdirs[j].dir = Append(t.output_base_dir, ExpectedStem(f))

\* A batch that converted a two-frame input and a single-frame input.
C4_Witness ==
    \E k \in DOMAIN threads :
      LET t == threads[k] IN
      /\ t.results = <<"ok", "ok">>
      /\ FrameCount(t.files[1]) = 2
      /\ FrameCount(t.files[2]) = 1
      /\ Len(t.saves) = 3

(***************************************************************************)
(* C5                                                                      *)
(***************************************************************************)
\* C5: a dismissed format dialog leaves no thread and an empty selection,
\* and once convert_files has started a batch no GUI event stops it before
\* every input has been processed: the program never ends with a batch
\* unfinished.
C5_OnlyCancelBeforeStart ==
    /\ status_label = "cancelled" => threads = <<>> /\ selected_files = <<>>
    /\ app = "exited" => \A k \in DOMAIN threads : threads[k].pc = "done"

(***************************************************************************)
(* C6                                                                      *)
(***************************************************************************)
Request(t) == <<t.files, t.output_format, t.ico_size, t.output_base_dir>>

C6_Root ==
    \A k \in DOMAIN threads :
      LET t == threads[k] IN
      /\ t.files # <<>>
      /\ t.output_base_dir = Append(t.files[1].dir, "pic")
      /\ \A j \in DOMAIN t.saves : IsPrefix(t.output_base_dir, t.saves[j].path.dir)
      /\ \A j \in DOMAIN t.subdirs : IsPrefix(t.output_base_dir, t.subdirs[j].dir)
      /\ t.pc # "done" =>
           Request(t) = <<selected_files, output_format, ico_size, output_base_dir>>

C6_Step ==
    \A k \in DOMAIN threads :
      (threads[k].pc # "done" /\ k \in DOMAIN threads')
         => Request(threads'[k]) = Request(threads[k])

\* C6: the request of a batch (file list, format, icon size, output root) is
\* set when the thread is made and no step changes it while the batch runs;
\* the root is "pic" under the directory of the first selected file, and
\* every path the batch writes or makes lies under that root.
C6_RequestFixed == [](C6_Root) /\ [][C6_Step]_vars

\* Mid-batch, after a progress signal was delivered to the window: a batch
\* of two files from different directories is at its second file.
C6_Witness ==
    \E k \in DOMAIN threads :
      LET t == threads[k] IN
      /\ Len(t.files) = 2
      /\ t.files[1].dir # t.files[2].dir
      /\ t.pc = "frames"
      /\ progress_value = 1
      /\ \E j \in DOMAIN t.saves : t.saves[j].file = 2 /\ t.saves[j].ok

(***************************************************************************)
(* C7                                                                      *)
(***************************************************************************)
\* The decoded frame a save call's frame was made from.
SourceFrame(t, c) ==
    LET f == t.files[c.file] IN
    IF Flatten(f.base) \in HeicNames THEN f.frames[1] ELSE f.frames[c.page]

C8_Frames ==
    \A k \in DOMAIN threads :
      LET t == threads[k] IN
      /\ t.pc = "probe" =>
           LET f == Cur(t) IN
           /\ Flatten(f.base) \notin HeicNames
           /\ t.tell < Len(f.frames)
           /\ Len(t.images_info) = t.tell
           /\ t.images_info = SubSeq(f.frames, 1, t.tell)
      /\ t.pc \in {"mkdir", "frames"} =>
           LET f == Cur(t) IN
           /\ t.images_info # <<>>
           /\ ~Undecodable(f)
           /\ Len(t.images_info) = FrameCount(f)
           /\ t.images_info = SubSeq(f.frames, 1, FrameCount(f))
      /\ \A i \in DOMAIN t.results :
           Undecodable(t.files[i]) =>
              t.results[i] = "failed" /\ SavesOf(t, i) = <<>>

C8_ProbeStep ==
    \A k \in DOMAIN threads :
      (k \in DOMAIN threads' /\ threads[k].pc = "probe" /\ threads'[k] # threads[k]
          /\ threads'[k].idx = threads[k].idx /\ threads'[k].pc = "probe")
        => threads'[k].tell = threads[k].tell + 1

\* C8: extraction ends with the frames of the file in container order (one
\* frame for a .heic file, all K frames otherwise) and never with none; an
\* undecodable file fails and nothing is saved for it; every turn of the
\* probing loop moves to the next frame and the loop ends at the first
\* absent frame, within the number of frames of the file.
C8_Extraction == [](C8_Frames) /\ [][C8_ProbeStep]_vars

\* The probing loop has gone round twice and left with two frames.
C8_Witness ==
    \E k \in DOMAIN threads :
      /\ threads[k].pc = "mkdir"
      /\ threads[k].tell = 1
      /\ Len(threads[k].images_info) = 2

(***************************************************************************)
(* C9                                                                      *)
(***************************************************************************)
RECURSIVE TotalFrames(_)
TotalFrames(files) ==
    IF files = <<>> THEN 0 ELSE FrameCount(Head(files)) + TotalFrames(Tail(files))

AllOk(t) == t.pc = "done" /\ \A i \in DOMAIN t.results : t.results[i] = "ok"

PathsWritten(t) == {t.saves[j].path : j \in {i \in DOMAIN t.saves : t.saves[i].ok}}

\* C9 as stated: no two saves of a batch go to the same path, and a batch in
\* which every file succeeded leaves as many output files as it extracted
\* frames.
C9_NoSharedPath ==
    \A k \in DOMAIN threads :
      LET t == threads[k] IN
      /\ \A i, j \in DOMAIN t.saves :
           i # j => t.saves[i].path # t.saves[j].path
      /\ AllOk(t) => Cardinality(PathsWritten(t)) = TotalFrames(t.files)

\* Two inputs whose outputs are named alike: same stem, both single-frame or
\* both multi-frame.
Clash(f, g) ==
    /\ ExpectedStem(f) = ExpectedStem(g)
    /\ (FrameCount(f) > 1) <=> (FrameCount(g) > 1)

\* C9 amended: every frame of a converted input is saved exactly once; two
\* saves of a batch go to the same path only as the same page of two
\* different inputs with the same stem that are both single-frame or both
\* multi-frame; a batch in which every file succeeded and no two inputs are
\* such a pair leaves as many output files as it extracted frames.
C9_SharedPathOnlySameStem ==
    \A k \in DOMAIN threads :
      LET t == threads[k] IN
      /\ \A i \in DOMAIN t.results :
           t.results[i] = "ok" =>
              [j \in DOMAIN SavesOf(t, i) |-> SavesOf(t, i)[j].page]
                 = Ident(FrameCount(t.files[i]))
      /\ \A i, j \in DOMAIN t.saves :
           (i # j /\ t.saves[i].path = t.saves[j].path) =>
              /\ t.saves[i].file # t.saves[j].file
              /\ t.saves[i].page = t.saves[j].page
              /\ Clash(t.files[t.saves[i].file], t.files[t.saves[j].file])
      /\ (AllOk(t) /\ \A i, j \in DOMAIN t.files :
                         i # j => ~Clash(t.files[i], t.files[j]))
           => Cardinality(PathsWritten(t)) = TotalFrames(t.files)

\* A finished batch of a single-frame and a two-frame input with the same
\* stem, every file converted, three output files.
C9_Witness ==
    \E k \in DOMAIN threads :
      LET t == threads[k] IN
      /\ AllOk(t)
      /\ Len(t.files) = 2
      /\ ExpectedStem(t.files[1]) = ExpectedStem(t.files[2])
      /\ TotalFrames(t.files) = 3
      /\ Cardinality(PathsWritten(t)) = 3

(***************************************************************************)
(* C10                                                                     *)
(***************************************************************************)
C10_State ==
    /\ Len(threads) <= 1
    /\ \A k \in DOMAIN threads :
         /\ ~select_enabled
         /\ selected_files = threads[k].files
    /\ select_enabled => queue = <<>>

C10_Step ==
    (select_enabled' /\ ~select_enabled) \/ (selected_files' = <<>> /\ selected_files # <<>>)
       => /\ threads # <<>>
          /\ \A k \in DOMAIN threads : threads[k].finished_count = 1
          /\ threads' = <<>>

\* C10: at most one ConverterThread exists from convert_files until
\* on_conversion_finished has handled its signal, and all that time the
\* select button is disabled and the selection is the batch's file list; the
\* button is enabled again and the selection cleared only by a step taken
\* after the batch emitted conversion_finished.
C10_OneBatch == [](C10_State) /\ [][C10_Step]_vars

\* A batch is at its second file, the button disabled.
C10_Witness ==
    /\ ~select_enabled
    /\ \E k \in DOMAIN threads : threads[k].pc = "frames" /\ threads[k].idx = 1

====
